---------------------------- MODULE Spec2Model ----------------------------
(***************************************************************************)
(* A model of the SimpleHX711 library (src/src/SimpleHX711.cpp, .h): the   *)
(* non-blocking driver of an HX711 24-bit bridge-sensor ADC.  The state is *)
(* the object's private fields, the two lines and the millisecond clock;   *)
(* there is one action per public method, and one for the millisecond      *)
(* clock advancing.  The data line is an input: what the chip puts on it   *)
(* is chosen at every read().                                              *)
(***************************************************************************)
EXTENDS Integers, Sequences, FiniteSets, TLC

VARIABLES
    gain,                 \* _gain: 32, 64 or 128
    tare,                 \* _tare (int32_t)
    alpha,                \* _alpha (uint8_t)
    timestamp,            \* _timestamp (uint32_t, as <<high word, low word>>)
    raw,                  \* _raw (int32_t)
    smoothedRaw,          \* _smoothedRaw (int32_t)
    adjuster,             \* _adjuster (int32_t)
    conversionStartTime,  \* _conversionStartTime (uint32_t, as two words)
    status,               \* _status
    readCount,            \* _readCount (uint8_t)
    readsUntilValid,      \* _readsUntilValid (uint8_t)
    pinClk,               \* level of the clock line (an output of the driver)
    now,                  \* millis() (uint32_t, as two words)
    ret,                  \* what the last call returned: "true", "false" (read) or "void"
    pulses,               \* clock pulses the last call emitted
    was,                  \* _status when the last call was made
    sinceUp,              \* history: ms since the last powerUp(), capped at TimeoutMs
    streak,               \* history: polls since the last reset, all ready, threshold unchanged
    xfers,                \* history: transfers since the last setGain(), threshold unchanged
    reached               \* history: readCount = readsUntilValid held since the last reset

vars == <<gain, tare, alpha, timestamp, raw, smoothedRaw, adjuster,
          conversionStartTime, status, readCount, readsUntilValid,
          pinClk, now, ret, pulses, was, sinceUp, streak, xfers, reached>>

calibration == <<tare, adjuster>>

---------------------------------------------------------------------------
(* Bounds of the model and the inputs the actions draw from.               *)

\* the largest threshold a caller passes to the constructor or setReadsUntilValid
MaxReads == 2
\* the clock runs for this many ms after construction
MaxElapsed == 1000

HIGH == 1
LOW == 0
TimeoutMs == 500
DefaultAlpha == 200
DefaultAdjuster == 256
DefaultReads == 3
DefaultGain == 128

Gains == {32, 64, 128}
Statuses == {"init", "valid", "poweredDown", "timedOut"}
\* 24-bit samples the chip sends
Samples == {0, 10}
Alphas == {0}
\* arguments of setTare, adjustTo and setAdjuster
Tares == {2000}
Targets == {0, 10}
Adjusters == {0}
\* 24-bit samples at both ends of the range: 0x7FFFFF is the largest and
\* 0x800000 the smallest reading, 0xFFFFF6 is -10
SeedSamples == {0, 10, 2^24 - 10, 2^23 - 1, 2^23}
TransferSamples == SeedSamples \cup {1, 7, 255, 2^24 - 1, 11259375}
\* arguments of setTare and adjustTo in the calibration arithmetic
CalTares == {0, 2000, 0 - 7}
CalTargets == {0, 1, 10, 0 - 3, 1000}
\* the clock is read after 100 or 250 ms
BootSteps == {100, 250}
\* the clock is read after 499 or 500 ms
TimeSteps == {TimeoutMs - 1, TimeoutMs}
\* a history counter whose premise no longer holds
NoCount == 0 - 1

---------------------------------------------------------------------------
(* uint32_t as <<high 16-bit word, low 16-bit word>>: TLC's integers are   *)
(* 32-bit signed and cannot hold 2^32 - 1.                                 *)

Word == 2^16

U32Zero == <<0, 0>>

\* t + d modulo 2^32, for 0 <= d < 2^16
U32Add(t, d) ==
    <<(t[1] + ((t[2] + d) \div Word)) % Word, (t[2] + d) % Word>>

\* a - b modulo 2^32 (unsigned subtraction)
U32Sub(a, b) ==
    LET borrow == IF a[2] < b[2] THEN 1 ELSE 0
    IN  <<(a[1] - b[1] - borrow) % Word, (a[2] - b[2]) % Word>>

\* t >= n, for 0 <= n < 2^16
U32Geq(t, n) == t[1] > 0 \/ t[2] >= n

\* a <= b as unsigned numbers
U32Leq(a, b) == a[1] < b[1] \/ (a[1] = b[1] /\ a[2] <= b[2])

\* millis() at construction: 500 ms before the 32-bit counter wraps
StartTime == <<Word - 1, Word - TimeoutMs>>

---------------------------------------------------------------------------
(* int32_t arithmetic, wrapping as the two's-complement hardware does.     *)

MaxInt32 == 2147483647
MinInt32 == -MaxInt32 - 1

\* a - b in int32_t
Sub32(a, b) ==
    IF a >= 0 /\ b < 0 /\ a > MaxInt32 + b THEN (a + MinInt32) - (b - MinInt32)
    ELSE IF a < 0 /\ b > 0 /\ a < MinInt32 + b THEN (a - MinInt32) - (b + MinInt32)
    ELSE a - b

\* a + b in int32_t
Add32(a, b) ==
    IF a > 0 /\ b > 0 /\ a > MaxInt32 - b THEN (a + MinInt32) + (b + MinInt32)
    ELSE IF a < 0 /\ b < 0 /\ a < MinInt32 - b THEN (a - MinInt32) + (b - MinInt32)
    ELSE a + b

\* C's integer division: truncation toward zero (b /= 0)
Quot(a, b) ==
    LET QuotPos(x, y) ==
            IF x >= 0 \/ x % y = 0 THEN x \div y ELSE (x \div y) + 1
    IN  IF b > 0 THEN QuotPos(a, b)
        ELSE IF b = MinInt32 THEN (IF a = MinInt32 THEN 1 ELSE 0)
        ELSE -QuotPos(a, -b)

---------------------------------------------------------------------------
(* read(): the pieces of SimpleHX711::read, in the order of the code.      *)

\* a variant of TimedOutNow that times out only after more than 500 ms
TimedOutNowStrict(t, start) == U32Geq(U32Sub(t, start), TimeoutMs + 1)

\* (millis() - _conversionStartTime) >= 500, in uint32_t
TimedOutNow(t, start) == U32Geq(U32Sub(t, start), TimeoutMs)

\* "after a timedOut the scale must be initialized again"
RecoverStatus(st) == IF st = "timedOut" THEN "init" ELSE st

\* a variant of RecoverCount that keeps the counter across a timeout
RecoverCountKeeps(st, rc) == rc

RecoverCount(st, rc) == IF st = "timedOut" THEN 0 ELSE rc

\* a variant of SampleBit that takes the least significant bit first
SampleBitLsbFirst(sample, k) == (sample \div 2^(k - 1)) % 2

\* the bit the chip puts on the data line at pulse k of 1..24, MSB first
SampleBit(sample, k) == (sample \div 2^(24 - k)) % 2

\* byte j (0 = least significant: the targets are little-endian) of an int32_t
ByteOf(v, j) == (v \div 2^(8 * j)) % 256

\* the int32_t whose bytes are b0 (least significant) .. b3
FromBytes(b0, b1, b2, b3) ==
    (IF b3 >= 128 THEN b3 - 256 ELSE b3) * 2^24 + b2 * 2^16 + b1 * 2^8 + b0

\* the inner loop: pulses first..last shift one bit each into the uint8_t b
RECURSIVE ShiftIn(_, _, _, _)
ShiftIn(b, sample, first, last) ==
    IF first > last THEN b
    ELSE ShiftIn((b * 2 + SampleBit(sample, first)) % 256,
                 sample, first + 1, last)

\* the outer loop: bytes 3, 2, 1 of _raw take 8 bits each; byte 0 is not written
ClockIn(v, sample) ==
    FromBytes(ByteOf(v, 0),
              ShiftIn(ByteOf(v, 1), sample, 17, 24),
              ShiftIn(ByteOf(v, 2), sample, 9, 16),
              ShiftIn(ByteOf(v, 3), sample, 1, 8))

DataPulses == 24

\* a variant of ExtraPulses whose cases each end in a break
ExtraPulsesNoFallThrough(g) == 1

\* the switch on _gain, with its fall-through: gain64 -> gain32 -> default
ExtraPulses(g) ==
    (IF g = 64 THEN 1 ELSE 0) + (IF g \in {64, 32} THEN 1 ELSE 0) + 1

\* _smoothedRaw += (_raw - _smoothedRaw) / 256 * _alpha
Smooth(r, s, a) == Add32(s, Quot(Sub32(r, s), 256) * a)

\* a variant of GateCount that never counts a read
GateCountStuck(rc, ruv) == rc

\* the settling gate: the counter after it
GateCount(rc, ruv) == IF rc < ruv THEN rc + 1 ELSE rc

\* the settling gate: whether read() goes on to set valid and return true
GatePass(rc, ruv) == ~(rc < ruv /\ rc + 1 < ruv)

\* a variant of GateSmoothed that smooths the first valid reading too
GateSmoothedNoSeed(rc, ruv, r, s, a) ==
    IF rc < ruv /\ rc + 1 < ruv THEN s ELSE Smooth(r, s, a)

\* the settling gate: _smoothedRaw after it, r being the raw value just read
GateSmoothed(rc, ruv, r, s, a) ==
    IF rc < ruv
    THEN IF rc + 1 < ruv THEN s ELSE r
    ELSE Smooth(r, s, a)

---------------------------------------------------------------------------
(* The constructor, with the arguments a caller may pass.                  *)

\* the constructor called when millis() reads t
ConstructAt(reads, g, t) ==
    /\ gain = g
    /\ tare = 0
    /\ raw = 0
    /\ smoothedRaw = 0
    /\ alpha = DefaultAlpha
    /\ adjuster = DefaultAdjuster
    /\ now = t
    /\ conversionStartTime = now
    /\ readCount = 0
    /\ status = "init"
    /\ readsUntilValid = reads
    /\ timestamp = U32Zero
    /\ pinClk = LOW
    /\ ret = "void"
    /\ was = "init"
    /\ pulses = 0
    /\ sinceUp = TimeoutMs
    /\ streak = 0
    /\ xfers = NoCount
    /\ reached = (readsUntilValid = 0)

Construct(reads, g) == ConstructAt(reads, g, StartTime)

Init == \E reads \in 0..MaxReads, g \in Gains : Construct(reads, g)

\* an object constructed as the millisecond counter starts (a global object):
\* the counter does not wrap in the time the model runs
InitBoot == \E reads \in 0..MaxReads : ConstructAt(reads, DefaultGain, U32Zero)

\* the constructor's default arguments
InitDefault == Construct(DefaultReads, DefaultGain)

\* The object after construction with a threshold of 1 and two polls that
\* found the chip ready and read x and then y: the first seeds the smoothed
\* reading, the second smooths with the default alpha; the clock has not
\* advanced.
AfterTwoPolls(x, y) ==
    /\ gain = DefaultGain
    /\ tare = 0
    /\ raw = ClockIn(ClockIn(0, x), y)
    /\ smoothedRaw = Smooth(raw, ClockIn(0, x), DefaultAlpha)
    /\ adjuster = DefaultAdjuster
    /\ now = StartTime
    /\ conversionStartTime = now
    /\ timestamp = now
    /\ readCount = 1
    /\ status = "valid"
    /\ readsUntilValid = 1
    /\ pinClk = LOW
    /\ was = "valid"
    /\ sinceUp = TimeoutMs
    /\ streak = 2
    /\ xfers = NoCount
    /\ reached = TRUE

\* ... and then setAlpha(a)
InitTransfer ==
    \E x \in SeedSamples, y \in SeedSamples, a \in 0..255 :
        /\ AfterTwoPolls(x, y)
        /\ alpha = a
        /\ ret = "void"
        /\ pulses = 0

\* the second poll has just returned
InitCal ==
    \E x \in SeedSamples, y \in SeedSamples :
        /\ AfterTwoPolls(x, y)
        /\ alpha = DefaultAlpha
        /\ ret = "true"
        /\ pulses = DataPulses + ExtraPulses(DefaultGain)

---------------------------------------------------------------------------
(* bool SimpleHX711::read()                                                *)

\* a variant of ReadPoweredDown that also restarts the settling count
ReadPoweredDownResets ==
    /\ pinClk = HIGH
    /\ status' = "poweredDown"
    /\ ret' = "true"
    /\ readCount' = 0
    /\ streak' = NoCount
    /\ UNCHANGED <<gain, alpha, timestamp, raw, smoothedRaw, conversionStartTime,
                   readsUntilValid, calibration, pinClk, now,
                   sinceUp, xfers, reached>>

\* the clock line reads high: the chip is powered down
ReadPoweredDown ==
    /\ pinClk = HIGH
    /\ status' = "poweredDown"
    /\ ret' = "true"
    /\ streak' = NoCount
    /\ UNCHANGED <<gain, alpha, timestamp, raw, smoothedRaw, conversionStartTime,
                   readCount, readsUntilValid, calibration, pinClk, now,
                   sinceUp, xfers, reached>>

\* a variant of ReadBusy whose timeout returns true without setting timedOut
ReadBusyKeepsStatus(d) ==
    /\ pinClk = LOW
    /\ d = HIGH
    /\ status' = status
    /\ ret' = IF TimedOutNow(now, conversionStartTime) THEN "true" ELSE "false"
    /\ streak' = NoCount
    /\ UNCHANGED <<gain, alpha, timestamp, raw, smoothedRaw, conversionStartTime,
                   readCount, readsUntilValid, calibration, pinClk, now,
                   sinceUp, xfers, reached>>

\* the data line reads high: the chip is busy, or has been for too long
ReadBusy(d) ==
    /\ pinClk = LOW
    /\ d = HIGH
    /\ IF TimedOutNow(now, conversionStartTime)
       THEN status' = "timedOut" /\ ret' = "true"
       ELSE status' = status /\ ret' = "false"
    /\ streak' = NoCount
    /\ UNCHANGED <<gain, alpha, timestamp, raw, smoothedRaw, conversionStartTime,
                   readCount, readsUntilValid, calibration, pinClk, now,
                   sinceUp, xfers, reached>>

\* a variant of ReadTransfer that stamps the reading with the time of the poll
ReadTransferStampsNow(d, sample) ==
    /\ pinClk = LOW
    /\ d = LOW
    /\ LET st == RecoverStatus(status)
           rc == RecoverCount(status, readCount)
           r  == ClockIn(raw, sample)
       IN  /\ timestamp' = now
           /\ raw' = r
           /\ pulses' = DataPulses + ExtraPulses(gain)
           /\ pinClk' = LOW
           /\ conversionStartTime' = now
           /\ readCount' = GateCount(rc, readsUntilValid)
           /\ smoothedRaw' = GateSmoothed(rc, readsUntilValid, r, smoothedRaw, alpha)
           /\ status' = IF GatePass(rc, readsUntilValid) THEN "valid" ELSE st
           /\ ret' = IF GatePass(rc, readsUntilValid) THEN "true" ELSE "false"
           /\ reached' = \/ IF status = "timedOut" THEN readsUntilValid = 0 ELSE reached
                         \/ GateCount(rc, readsUntilValid) = readsUntilValid
    /\ streak' = IF streak = NoCount \/ streak > readsUntilValid THEN streak ELSE streak + 1
    /\ xfers' = IF xfers = NoCount \/ xfers >= readsUntilValid THEN xfers ELSE xfers + 1
    /\ UNCHANGED <<gain, alpha, readsUntilValid, calibration, now, sinceUp>>

\* the chip is ready: 24 data pulses, the gain pulses, the settling gate
ReadTransfer(d, sample) ==
    /\ pinClk = LOW
    /\ d = LOW
    /\ LET st == RecoverStatus(status)
           rc == RecoverCount(status, readCount)
           r  == ClockIn(raw, sample)
       IN  /\ timestamp' = conversionStartTime
           /\ raw' = r
           /\ pulses' = DataPulses + ExtraPulses(gain)
           /\ pinClk' = LOW
           /\ conversionStartTime' = now
           /\ readCount' = GateCount(rc, readsUntilValid)
           /\ smoothedRaw' = GateSmoothed(rc, readsUntilValid, r, smoothedRaw, alpha)
           /\ status' = IF GatePass(rc, readsUntilValid) THEN "valid" ELSE st
           /\ ret' = IF GatePass(rc, readsUntilValid) THEN "true" ELSE "false"
           /\ reached' = \/ IF status = "timedOut" THEN readsUntilValid = 0 ELSE reached
                         \/ GateCount(rc, readsUntilValid) = readsUntilValid
    /\ streak' = IF streak = NoCount \/ streak > readsUntilValid THEN streak ELSE streak + 1
    /\ xfers' = IF xfers = NoCount \/ xfers >= readsUntilValid THEN xfers ELSE xfers + 1
    /\ UNCHANGED <<gain, alpha, readsUntilValid, calibration, now, sinceUp>>

\* d is the level read from the data line, sample what the chip then sends
Read(d, sample) ==
    /\ was' = status
    /\ \/ ReadPoweredDown /\ pulses' = 0
       \/ ReadBusy(d) /\ pulses' = 0
       \/ ReadTransfer(d, sample)

---------------------------------------------------------------------------
(* The other public methods.                                               *)

\* a variant of SetGain that leaves the settling counter alone
SetGainKeepsCount(g) ==
    /\ gain' = g
    /\ status' = "init"
    /\ ret' = "void" /\ pulses' = 0 /\ was' = status
    /\ streak' = 0
    /\ xfers' = 0
    /\ reached' = (readsUntilValid = 0)
    /\ UNCHANGED <<alpha, timestamp, raw, smoothedRaw, conversionStartTime,
                   readCount, readsUntilValid, calibration, pinClk, now, sinceUp>>

SetGain(g) ==
    /\ gain' = g
    /\ status' = "init"
    /\ readCount' = 0
    /\ ret' = "void" /\ pulses' = 0 /\ was' = status
    /\ streak' = 0
    /\ xfers' = 0
    /\ reached' = (readsUntilValid = 0)
    /\ UNCHANGED <<alpha, timestamp, raw, smoothedRaw, conversionStartTime,
                   readsUntilValid, calibration, pinClk, now, sinceUp>>

\* a variant of SetAlpha that restarts settling, as setGain does
SetAlphaResettles(a) ==
    /\ alpha' = a
    /\ status' = "init"
    /\ readCount' = 0
    /\ ret' = "void" /\ pulses' = 0 /\ was' = status
    /\ UNCHANGED <<gain, timestamp, raw, smoothedRaw, conversionStartTime,
                   readsUntilValid, calibration, pinClk, now,
                   sinceUp, streak, xfers, reached>>

SetAlpha(a) ==
    /\ alpha' = a
    /\ ret' = "void" /\ pulses' = 0 /\ was' = status
    /\ UNCHANGED <<gain, timestamp, raw, smoothedRaw, conversionStartTime, status,
                   readCount, readsUntilValid, calibration, pinClk, now,
                   sinceUp, streak, xfers, reached>>

\* a variant of PowerDown that records the power state in _status at once
PowerDownSetsStatus ==
    /\ pinClk' = HIGH
    /\ status' = "poweredDown"
    /\ ret' = "void" /\ pulses' = 0 /\ was' = status
    /\ UNCHANGED <<gain, alpha, timestamp, raw, smoothedRaw, conversionStartTime,
                   readCount, readsUntilValid, calibration, now,
                   sinceUp, streak, xfers, reached>>

PowerDown ==
    /\ pinClk' = HIGH
    /\ ret' = "void" /\ pulses' = 0 /\ was' = status
    /\ UNCHANGED <<gain, alpha, timestamp, raw, smoothedRaw, conversionStartTime,
                   status, readCount, readsUntilValid, calibration, now,
                   sinceUp, streak, xfers, reached>>

\* a variant of PowerUp that does not restart the timeout
PowerUpKeepsStart ==
    /\ pinClk' = LOW
    /\ status' = "init"
    /\ readCount' = 0
    /\ ret' = "void" /\ pulses' = 0 /\ was' = status
    /\ sinceUp' = 0
    /\ streak' = 0
    /\ reached' = (readsUntilValid = 0)
    /\ UNCHANGED <<gain, alpha, timestamp, raw, smoothedRaw, conversionStartTime,
                   readsUntilValid, calibration, now, xfers>>

PowerUp ==
    /\ pinClk' = LOW
    /\ status' = "init"
    /\ readCount' = 0
    /\ conversionStartTime' = now
    /\ ret' = "void" /\ pulses' = 0 /\ was' = status
    /\ sinceUp' = 0
    /\ streak' = 0
    /\ reached' = (readsUntilValid = 0)
    /\ UNCHANGED <<gain, alpha, timestamp, raw, smoothedRaw, readsUntilValid,
                   calibration, now, xfers>>

SetReadsUntilValid(n) ==
    /\ readsUntilValid' = n
    /\ ret' = "void" /\ pulses' = 0 /\ was' = status
    /\ streak' = IF n = readsUntilValid THEN streak ELSE NoCount
    /\ xfers' = IF n = readsUntilValid THEN xfers ELSE NoCount
    /\ reached' = (reached \/ readCount = n)
    /\ UNCHANGED <<gain, alpha, timestamp, raw, smoothedRaw, conversionStartTime,
                   status, readCount, calibration, pinClk, now, sinceUp>>

\* the reading the calibration methods work on
GetRaw(smoothed) == IF smoothed THEN smoothedRaw ELSE raw

\* a variant of Tare that zeroes the reading instead of storing the offset
TareZeroes(smoothed) ==
    /\ tare' = GetRaw(smoothed)
    /\ raw' = 0
    /\ smoothedRaw' = 0
    /\ ret' = "void" /\ pulses' = 0 /\ was' = status
    /\ UNCHANGED <<gain, alpha, timestamp, adjuster,
                   conversionStartTime, status, readCount, readsUntilValid,
                   pinClk, now, sinceUp, streak, xfers, reached>>

Tare(smoothed) ==
    /\ tare' = GetRaw(smoothed)
    /\ ret' = "void" /\ pulses' = 0 /\ was' = status
    /\ UNCHANGED <<gain, alpha, timestamp, raw, smoothedRaw, adjuster,
                   conversionStartTime, status, readCount, readsUntilValid,
                   pinClk, now, sinceUp, streak, xfers, reached>>

SetTare(v) ==
    /\ tare' = v
    /\ ret' = "void" /\ pulses' = 0 /\ was' = status
    /\ UNCHANGED <<gain, alpha, timestamp, raw, smoothedRaw, adjuster,
                   conversionStartTime, status, readCount, readsUntilValid,
                   pinClk, now, sinceUp, streak, xfers, reached>>

GetRawMinusTare(smoothed) == Sub32(GetRaw(smoothed), tare)

\* "prevent divide by zero": a zero target counts as 1
AdjustTo(value, smoothed) ==
    /\ adjuster' = Quot(GetRawMinusTare(smoothed), IF value = 0 THEN 1 ELSE value)
    /\ ret' = "void" /\ pulses' = 0 /\ was' = status
    /\ UNCHANGED <<gain, alpha, timestamp, raw, smoothedRaw, tare,
                   conversionStartTime, status, readCount, readsUntilValid,
                   pinClk, now, sinceUp, streak, xfers, reached>>

SetAdjuster(v) ==
    /\ adjuster' = v
    /\ ret' = "void" /\ pulses' = 0 /\ was' = status
    /\ UNCHANGED <<gain, alpha, timestamp, raw, smoothedRaw, tare,
                   conversionStartTime, status, readCount, readsUntilValid,
                   pinClk, now, sinceUp, streak, xfers, reached>>

\* defined only for a non-zero _adjuster
GetAdjusted(smoothed) == Quot(GetRawMinusTare(smoothed), adjuster)

---------------------------------------------------------------------------
(* The environment: millis() advances.                                     *)

Elapsed == U32Sub(now, StartTime)

Tick(dt) ==
    /\ Elapsed[1] = 0
    /\ Elapsed[2] + dt <= MaxElapsed
    /\ now' = U32Add(now, dt)
    /\ sinceUp' = IF sinceUp + dt >= TimeoutMs THEN TimeoutMs ELSE sinceUp + dt
    /\ UNCHANGED <<gain, alpha, timestamp, raw, smoothedRaw, conversionStartTime,
                   status, readCount, readsUntilValid, calibration, pinClk,
                   ret, pulses, was, streak, xfers, reached>>

---------------------------------------------------------------------------

\* read() with the data line busy, or ready and then sending any of `samples`
Poll(samples) ==
    \/ \E sample \in samples : Read(LOW, sample)
    \/ Read(HIGH, 0)

Next ==
    \/ Poll(Samples)
    \/ \E g \in Gains : SetGain(g)
    \/ PowerDown
    \/ PowerUp
    \/ \E n \in 0..MaxReads : SetReadsUntilValid(n)
    \/ Tick(TimeoutMs)

\* The acquisition state machine: polling, gain, power and threshold changes,
\* the clock read every 500 ms.
Spec == Init /\ [][Next]_vars

\* Polling and power changes against a clock read after 499 or 500 ms: the
\* two sides of the busy timeout.
NextClock ==
    \/ Poll({10})
    \/ PowerDown
    \/ PowerUp
    \/ \E dt \in TimeSteps : Tick(dt)

SpecClock == Init /\ [][NextClock]_vars

\* Every public method that changes state, the smoothing and calibration
\* setters included, on an object constructed with the default arguments;
\* the clock stands still and the chip sends one sample value.
NextAll ==
    \/ Poll({10})
    \/ \E g \in Gains : SetGain(g)
    \/ \E a \in Alphas : SetAlpha(a)
    \/ PowerDown
    \/ PowerUp
    \/ SetReadsUntilValid(1)
    \/ \E sm \in BOOLEAN : Tare(sm)
    \/ \E v \in Tares : SetTare(v)
    \/ \E v \in Targets, sm \in BOOLEAN : AdjustTo(v, sm)
    \/ \E v \in Adjusters : SetAdjuster(v)

SpecAll == InitDefault /\ [][NextAll]_vars

\* Every public method that changes state against a clock read every 500 ms,
\* so that polls time out between calls of the setters: what each method
\* leaves alone.
NextFrame ==
    \/ Poll({10})
    \/ \E g \in Gains : SetGain(g)
    \/ \E a \in Alphas : SetAlpha(a)
    \/ PowerDown
    \/ PowerUp
    \/ SetReadsUntilValid(2)
    \/ \E sm \in BOOLEAN : Tare(sm)
    \/ \E v \in Tares : SetTare(v)
    \/ \E sm \in BOOLEAN : AdjustTo(10, sm)
    \/ \E v \in Adjusters : SetAdjuster(v)
    \/ Tick(TimeoutMs)

SpecFrame == Construct(1, DefaultGain) /\ [][NextFrame]_vars

\* The poll that follows setAlpha() on a settled object: the transfer and the
\* smoothing step on samples and readings from both ends of the 24-bit range,
\* for every alpha.
NextTransfer == ret = "void" /\ Poll(TransferSamples)

SpecTransfer == InitTransfer /\ [][NextTransfer]_vars

\* The calibration methods on a settled object, no poll in between: readings
\* from both ends of the range, tares and targets of both signs.
NextCal ==
    \/ \E sm \in BOOLEAN : Tare(sm)
    \/ \E v \in CalTares : SetTare(v)
    \/ \E v \in CalTargets, sm \in BOOLEAN : AdjustTo(v, sm)
    \/ \E v \in Adjusters : SetAdjuster(v)

SpecCal == InitCal /\ [][NextCal]_vars

\* Polling and power changes on an object constructed as the counter starts,
\* the clock read after 100 or 250 ms: the times the driver records, on a
\* clock that does not wrap.
NextBoot ==
    \/ Poll({10})
    \/ PowerDown
    \/ PowerUp
    \/ \E dt \in BootSteps : Tick(dt)

SpecBoot == InitBoot /\ [][NextBoot]_vars

\* a poll that finds the clock line low and the chip ready
ReadyPoll == pinClk = LOW /\ Read(LOW, 10)

\* The acquisition state machine under a caller that keeps polling and a chip
\* that keeps converting: a poll that finds the chip ready is made again and
\* again for as long as it would change anything.
NextLive ==
    \/ Poll({10})
    \/ PowerDown
    \/ PowerUp
    \/ \E n \in 0..MaxReads : SetReadsUntilValid(n)
    \/ Tick(TimeoutMs)

InitLive == \E reads \in 0..MaxReads : Construct(reads, DefaultGain)

SpecLive == InitLive /\ [][NextLive]_vars /\ WF_vars(ReadyPoll)

---------------------------------------------------------------------------
(* The claims.                                                             *)

Levels == {LOW, HIGH}

\* C1: with the threshold N >= 1 unchanged since a reset (construction,
\* setGain, powerUp) and both lines low at every poll since, polls 1..N-1
\* return false and leave the status init; poll N returns true, sets the
\* status valid and leaves the smoothed reading equal to the raw value it read.
C1_SettlingGate ==
    /\ streak \in 1..(readsUntilValid - 1) =>
          status = "init" /\ ret \in {"false", "void"}
    /\ (readsUntilValid >= 1 /\ streak = readsUntilValid) =>
          status = "valid" /\ smoothedRaw = raw /\ ret \in {"true", "void"}

\* C1's case: the second poll after a reset with N = 2 returned true, having
\* read a non-zero sample after a first poll that read another value.
C1_Witness ==
    /\ readsUntilValid = 2 /\ streak = 2
    /\ ret = "true" /\ status = "valid" /\ was = "init"
    /\ raw = 2560 /\ smoothedRaw = raw

\* C2: a poll that finds the clock line low and the data line high sets the
\* status timedOut and returns true when 500 ms or more have passed since the
\* conversion start, whatever the status was; before that (at 499 ms too) it
\* returns false and leaves the status as it was.  Either way it emits no
\* pulse and leaves the readings, the times and the counter alone.
C2_BusyTimeout ==
    [][(pinClk = LOW /\ Read(HIGH, 0)) =>
          /\ pulses' = 0
          /\ UNCHANGED <<pinClk, raw, smoothedRaw, timestamp,
                         conversionStartTime, readCount>>
          /\ IF U32Geq(U32Sub(now, conversionStartTime), 500)
             THEN status' = "timedOut" /\ ret' = "true"
             ELSE status' = status /\ ret' = "false"]_vars

\* C2's case: a busy poll exactly 500 ms after the conversion start took the
\* status from valid to timedOut.
C2_Witness ==
    /\ status = "timedOut" /\ was = "valid" /\ ret = "true" /\ pulses = 0
    /\ U32Sub(now, conversionStartTime) = <<0, 500>>

\* C3 as stated: the poll that follows a timed-out poll leaves the counter 0
\* and the status init, whatever the lines read.
C3_Original ==
    (was = "timedOut" /\ ret # "void") => (status = "init" /\ readCount = 0)

\* C3, amended: a poll made with the status timedOut restarts settling only
\* when it finds both lines low; it then transfers, so that it ends with the
\* counter at min(1, N) and the status init (valid when N <= 1).  A poll
\* that finds the clock line high sets poweredDown and one that finds the data
\* line high leaves timedOut; neither changes the counter.
C3_TimeoutRecovery ==
    [][\A d \in Levels, s \in Samples :
          (status = "timedOut" /\ Read(d, s)) =>
              IF pinClk = LOW /\ d = LOW
              THEN /\ readCount' = IF readsUntilValid >= 1 THEN 1 ELSE 0
                   /\ status' = IF readsUntilValid <= 1 THEN "valid" ELSE "init"
              ELSE /\ readCount' = readCount
                   /\ status' = IF pinClk = HIGH THEN "poweredDown" ELSE "timedOut"]_vars

\* C3's case: a poll made with the status timedOut transferred and left the
\* counter at 1 of 2.
C3_Witness ==
    /\ was = "timedOut" /\ ret = "false" /\ pulses > 0
    /\ status = "init" /\ readCount = 1 /\ readsUntilValid = 2

\* C4: a poll that finds the clock line high returns true with the status
\* poweredDown, emits no pulse and leaves the raw and smoothed readings, the
\* timestamp, the conversion start and the counter as they were.
C4_PoweredDownPoll ==
    [][\A d \in Levels, s \in Samples :
          (pinClk = HIGH /\ Read(d, s)) =>
              /\ ret' = "true"
              /\ status' = "poweredDown"
              /\ pulses' = 0
              /\ UNCHANGED <<pinClk, raw, smoothedRaw, timestamp,
                             conversionStartTime, readCount>>]_vars

\* C4's case: a poll found a settled chip powered down and kept its reading.
C4_Witness ==
    /\ status = "poweredDown" /\ was = "valid" /\ ret = "true" /\ pulses = 0
    /\ pinClk = HIGH /\ raw = 2560 /\ readCount = 2

\* C5 as stated: once the status is poweredDown, only powerUp() takes it out
\* of poweredDown.
C5_Original ==
    [][(status = "poweredDown" /\ ~PowerUp) => status' = "poweredDown"]_vars

\* C5, amended: once the status is poweredDown it stays poweredDown under
\* read, setAlpha, setReadsUntilValid, powerDown and the tare and adjuster
\* methods; powerUp() and setGain() are the only methods that take it out of
\* poweredDown, and both leave it init.
C5_PoweredDownPersists ==
    [][(status = "poweredDown" /\ status' # "poweredDown") =>
          /\ PowerUp \/ \E g \in Gains : SetGain(g)
          /\ status' = "init"]_vars

\* C5's case: a method that returns nothing was called on an object whose
\* status was poweredDown, and the status still is.
C5_Witness ==
    /\ was = "poweredDown" /\ status = "poweredDown" /\ ret = "void"
    /\ adjuster # DefaultAdjuster

\* C6: setGain(mode) sets the gain to mode, the status to init and the counter
\* to 0; from then on, while the threshold N is not changed, the counter is at
\* most the number of transfers made since, and the status is valid only
\* after at least N of them.
C6_GainResettles ==
    /\ [][\A g \in Gains :
             SetGain(g) => (gain' = g /\ status' = "init" /\ readCount' = 0)]_vars
    /\ [](xfers # NoCount =>
             /\ readCount <= xfers
             /\ status = "valid" => xfers >= readsUntilValid)

\* C6's case: the status is valid again after setGain(gain64), with N = 2
\* transfers made since.
C6_Witness ==
    /\ gain = 64 /\ xfers = 2 /\ readsUntilValid = 2
    /\ status = "valid" /\ ret = "true" /\ was = "init"

\* C7: powerUp() sets the clock line low, the status init, the counter 0 and
\* the conversion start to now; a poll made less than 500 ms after it that
\* finds the clock line low and the data line busy returns false and does not
\* set timedOut, however old the conversion start was before powerUp().
C7_PowerUpNoTimeout ==
    [][/\ PowerUp => /\ pinClk' = LOW /\ status' = "init" /\ readCount' = 0
                     /\ conversionStartTime' = now
       /\ (sinceUp < TimeoutMs /\ pinClk = LOW /\ Read(HIGH, 0)) =>
              (ret' = "false" /\ status' # "timedOut")]_vars

\* C7's case: no transfer was ever made, powerUp() was called 500 ms after
\* construction, and a busy poll 499 ms later returned false.
C7_Witness ==
    /\ sinceUp = TimeoutMs - 1 /\ ret = "false" /\ pulses = 0 /\ status = "init"
    /\ Elapsed = <<0, 999>> /\ raw = 0 /\ conversionStartTime = U32Zero

\* C8: the counter never exceeds the threshold in force.
C8_CounterBounded == readCount <= readsUntilValid

\* C9: whenever the status is valid, the counter has been equal to the
\* threshold at some point since the last reset (construction, setGain,
\* powerUp, timeout recovery).
C9_ValidOnlyAfterReached == status = "valid" => reached

\* C10: the poll that first sets the status valid after a reset leaves the
\* smoothed reading equal to the raw value it read.
C10_SeedOnFirstValid ==
    (ret = "true" /\ was # "valid" /\ status = "valid") => smoothedRaw = raw

\* C11: a poll that returns true leaves the status valid, timedOut or
\* poweredDown, never init.  A poll that returns false was a busy poll made
\* less than 500 ms after the conversion start, or a transfer that left the
\* counter below the threshold; it does not make the status valid (a status
\* that was valid before the poll stays valid).
C11_PollResult ==
    [][\A d \in Levels, s \in Samples :
          (ret' # "void" /\ Read(d, s)) =>
              /\ ret' = "true" => status' \in {"valid", "timedOut", "poweredDown"}
              /\ ret' = "false" =>
                    /\ pinClk = LOW
                    /\ IF d = HIGH
                       THEN /\ ~U32Geq(U32Sub(now, conversionStartTime), 500)
                            /\ pulses' = 0
                       ELSE /\ pulses' >= 24
                            /\ readCount' < readsUntilValid
                    /\ status' = "valid" => status = "valid"]_vars

\* C11's case: after the threshold was raised on a settled chip, a transfer
\* returned false with the counter below the threshold; the status was valid
\* before the poll and the poll left it so.
C11_Witness ==
    /\ ret = "false" /\ pulses >= 24 /\ readCount < readsUntilValid
    /\ was = "valid" /\ status = "valid"

\* C12: raw and smoothed change only in a poll that finds both lines low and
\* makes the 24-bit transfer.  Busy polls, timed-out polls, powered-down polls
\* and setGain, powerUp, powerDown, setAlpha, setReadsUntilValid, tare,
\* setTare, adjustTo and setAdjuster leave both as they were (the getters
\* assign nothing).
C12_ReadingFrame ==
    [][(raw' # raw \/ smoothedRaw' # smoothedRaw) =>
          /\ pinClk = LOW
          /\ pulses' >= 24
          /\ \E s \in Samples : Read(LOW, s)]_vars

\* C12's case: a settled reading survived setAlpha, setTare and a poll that
\* timed out.
C12_Witness ==
    /\ status = "timedOut" /\ ret = "true" /\ pulses = 0
    /\ raw = 2560 /\ smoothedRaw = 2560 /\ alpha = 0 /\ tare = 2000

\* C16: the status and the counter change only in read(), powerUp() and
\* setGain(); powerDown, setAlpha, setReadsUntilValid, tare, setTare, adjustTo
\* and setAdjuster leave both as they were (the getters assign nothing).
C16_StatusFrame ==
    [][(status' # status \/ readCount' # readCount) =>
          \/ \E d \in Levels, s \in Samples : Read(d, s)
          \/ PowerUp
          \/ \E g \in Gains : SetGain(g)]_vars

\* C16's case: powerDown() was called on a settled chip after the threshold
\* was raised and the adjuster set; the status is still valid and the counter
\* still 2.
C16_Witness ==
    /\ pinClk = HIGH /\ ret = "void" /\ status = "valid"
    /\ readCount = 2 /\ readsUntilValid = 2 /\ adjuster = 0

\* C17: a poll that finds both lines low emits 24 data pulses and then 1
\* (gain128), 2 (gain32) or 3 (gain64) more, by the gain in force at that
\* poll, and returns with the clock line low; a poll that finds either line
\* high emits none.
C17_PulseTrain ==
    [][\A d \in Levels, s \in Samples :
          (ret' # "void" /\ Read(d, s)) =>
              IF pinClk = LOW /\ d = LOW
              THEN /\ pulses' = 24 + CASE gain = 128 -> 1
                                       [] gain = 32 -> 2
                                       [] gain = 64 -> 3
                   /\ pinClk' = LOW
              ELSE pulses' = 0]_vars

\* C17's case: a settling poll made with gain64 returned false after 27 pulses.
C17_Witness ==
    /\ gain = 64 /\ pulses = 27 /\ ret = "false" /\ pinClk = LOW
    /\ readCount = 1 /\ readsUntilValid = 2

\* trunc((r - s) / 256) over the integers, for r and s in int32_t: the
\* difference is taken on the quotients and remainders by 256, so that
\* nothing leaves 32 bits
DeltaQuot(r, s) ==
    LET h == (r \div 256) - (s \div 256)
        l == (r % 256) - (s % 256)
    IN  IF h > 0 THEN (IF l < 0 THEN h - 1 ELSE h)
        ELSE IF h < 0 THEN (IF l > 0 THEN h + 1 ELSE h)
        ELSE 0

\* |r - s| < 256 over the integers
SmallDelta(r, s) ==
    LET h == (r \div 256) - (s \div 256)
        l == (r % 256) - (s % 256)
    IN  (h = 0) \/ (h = 1 /\ l < 0) \/ (h = 0 - 1 /\ l > 0)

\* s + trunc((r - s) / 256) * a over the integers, for a in 0..255: the
\* result lies between s and r, the product is added in two halves
MathSmooth(r, s, a) ==
    (s + DeltaQuot(r, s) * (a \div 2)) + DeltaQuot(r, s) * (a - (a \div 2))

\* C13: a poll that finds both lines low with the counter at the threshold
\* leaves smoothed = smoothed + trunc((raw - smoothed) / 256) * alpha, raw
\* being the value it read, the division truncating toward zero and made
\* before the multiplication; when |raw - smoothed| < 256 the smoothed reading
\* does not change, for every alpha in 0..255.
C13_Smoothing ==
    [][\A s \in TransferSamples :
          (readCount = readsUntilValid /\ pinClk = LOW /\ Read(LOW, s)) =>
              /\ smoothedRaw' = MathSmooth(raw', smoothedRaw, alpha)
              /\ SmallDelta(raw', smoothedRaw) => smoothedRaw' = smoothedRaw]_vars

\* the 24-bit two's-complement value of a sample
SignExtend24(s) == IF s >= 2^23 THEN s - 2^24 ELSE s

\* C18: a poll that finds both lines low and reads the bits b23..b0 leaves
\* raw = 256 * (the two's-complement value of b23..b0), whatever raw was
\* before; raw is always a multiple of 256 in -2^31 .. 2^31 - 256.
C18_SampleAssembly ==
    /\ [][\A s \in TransferSamples :
             (pinClk = LOW /\ Read(LOW, s)) => raw' = 256 * SignExtend24(s)]_vars
    /\ [](raw % 256 = 0 /\ raw >= MinInt32 /\ raw <= MaxInt32 - 255)

\* C18's case: the poll read the negative sample 0xABCDEF over a reading that
\* was not zero (the smoothed reading is between the two earlier readings,
\* 10 and 0x7FFFFF).
C18_Witness ==
    /\ raw = 256 * (11259375 - 2^24) /\ ret = "true" /\ pulses = 25
    /\ smoothedRaw > 2560 /\ smoothedRaw < MaxInt32 - 255

\* whether r - t over the integers is an int32_t
DiffFits(r, t) == IF t >= 0 THEN r >= MinInt32 + t ELSE r <= MaxInt32 + t

\* C14: adjustTo(0, smoothed) sets adjuster = reading - tare, the reading being
\* raw or smoothed by the flag; adjustTo(v, smoothed) with v # 0 sets
\* adjuster = trunc((reading - tare) / v); tare, raw, smoothed and status do
\* not change.  (The adjuster is an int32_t, so the difference the claim
\* names has to be one: for these targets the quotient of a difference that
\* wrapped is off by 2^32 / v.)
C14_AdjustTo ==
    [][\A v \in CalTargets, sm \in BOOLEAN :
          AdjustTo(v, sm) =>
              LET reading == IF sm THEN smoothedRaw ELSE raw
              IN  /\ DiffFits(reading, tare)
                  /\ adjuster' = IF v = 0 THEN reading - tare
                                 ELSE Quot(reading - tare, v)
                  /\ UNCHANGED <<tare, raw, smoothedRaw, status>>]_vars

\* C15: after adjustTo(v, smoothed) with v # 0 the adjuster is not zero and
\* getAdjusted(smoothed) returns v.
C15_RoundTrip ==
    [][\A v \in CalTargets \ {0}, sm \in BOOLEAN :
          AdjustTo(v, sm) => (adjuster' # 0 /\ GetAdjusted(sm)' = v)]_vars

\* C19: a poll that finds both lines low sets the timestamp to the conversion
\* start it found and then the conversion start to now, whether it returns
\* true or false; any other poll changes neither.  The conversion start
\* changes only there and in powerUp(), to now each time, so a reading's
\* timestamp is the time of the transfer before it, or of the last powerUp()
\* or the construction.  On a clock that does not wrap,
\* timestamp <= conversion start <= now in every state.
C19_Timestamps ==
    /\ [][\A d \in Levels, s \in Samples :
             (ret' # "void" /\ Read(d, s)) =>
                 IF pinClk = LOW /\ d = LOW
                 THEN /\ timestamp' = conversionStartTime
                      /\ conversionStartTime' = now
                 ELSE UNCHANGED <<timestamp, conversionStartTime>>]_vars
    /\ [][conversionStartTime' # conversionStartTime =>
             /\ conversionStartTime' = now
             /\ PowerUp \/ pulses' >= 24]_vars
    /\ [][timestamp' # timestamp => pulses' >= 24]_vars
    /\ [](U32Leq(timestamp, conversionStartTime) /\ U32Leq(conversionStartTime, now))

\* C19's case: powerUp() at 100 ms, a settling poll at 350 ms that returned
\* false and stamped its reading 100, the clock now at 450 ms.
C19_Witness ==
    /\ timestamp = <<0, 100>> /\ conversionStartTime = <<0, 350>> /\ now = <<0, 450>>
    /\ ret = "false" /\ pulses = 25 /\ readCount = 1 /\ raw = 2560

\* the transfers still to make before read() returns true with the status
\* valid: one when the counter (0 after a timeout) is within one of the
\* threshold or past it, else the difference
Needed ==
    LET rc == RecoverCount(status, readCount)
    IN  IF rc + 1 >= readsUntilValid THEN 1 ELSE readsUntilValid - rc

\* C20: if from some point on the clock line is low and the only calls are
\* polls that find the chip ready (the clock may go on), the status becomes
\* valid and a poll returns true.  It takes at most max(1, N) transfers from
\* any state, one after a timeout with N <= 1: each transfer either is the
\* last one needed, and returns true with the status valid, or leaves one
\* fewer to make.
C20_Progress ==
    /\ (<>[][ReadyPoll \/ Tick(TimeoutMs)]_vars /\ []<>(pinClk = LOW)) =>
           <>[](status = "valid" /\ ret = "true")
    /\ [][ReadyPoll =>
             IF Needed = 1
             THEN status' = "valid" /\ ret' = "true"
             ELSE Needed' = Needed - 1 /\ ret' = "false"]_vars
    /\ [](Needed <= IF readsUntilValid >= 1 THEN readsUntilValid ELSE 1)

\* C20's case: the poll after a timeout found the chip ready and, the
\* threshold being 1, returned true with the status valid.
C20_Witness ==
    /\ was = "timedOut" /\ status = "valid" /\ ret = "true"
    /\ readsUntilValid = 1 /\ readCount = 1

====
